---- MODULE Spec2Model ----
(***************************************************************************)
(* Runner Platform API: the FastAPI handlers of app/main.py over the       *)
(* Firestore adapter of app/database.py, with the pydantic schemas of      *)
(* app/models.py.  Handlers are coroutines: a handler runs atomically up   *)
(* to its next awaited Firestore call, and other requests interleave at    *)
(* the awaits.                                                             *)
(***************************************************************************)
EXTENDS Integers, Sequences, FiniteSets, TLC

VARIABLES
    store,      \* the 'applications' collection: document id -> document data
    submitted,  \* history: id generated by collection.document() -> the request body it was generated for
    now,        \* the time datetime.utcnow() last returned, as a counter
    storageUp,  \* whether Firestore can be reached
    req,        \* the handlers suspended at an await: slot -> its locals
    last,       \* the answer just sent, until a handler takes its next step
    deleteTrue  \* history: id -> how many delete_application calls returned True for it

vars == <<store, submitted, now, storageUp, req, last, deleteTrue>>

(***************************************************************************)
(* Bounds of the model.                                                    *)
(***************************************************************************)
MaxIds == 3        \* document ids collection.document() can generate
MaxInFlight == 2   \* handlers suspended at an await at the same time
MaxLimit == 2      \* largest ?limit= a list request is sent with

Ids == 1..MaxIds
Slots == 1..MaxInFlight

(***************************************************************************)
(* models.py: the constraints of the schemas.                              *)
(***************************************************************************)
NameMinLen == 2
NameMaxLen == 100
AgeMin == 18
AgeMax == 100
ExperienceMaxLen == 500
PaceMaxLen == 20
StatsLimit == 1000

Levels == {"beginner", "intermediate", "advanced"}
Goals == {"5k", "10k", "half_marathon", "marathon", "fitness"}
Zones == {"city_centre", "northside", "southside", "docklands", "phoenix_park", "coastal", "any"}
Statuses == {"pending", "approved", "rejected"}

\* Optional[T]: None is <<>>, a value x is <<x>>.
None == <<>>
Some(x) == <<x>>

\* Strings the code inspects character by character are sequences of characters.
IsSpace(c) == c = " "

RECURSIVE lstrip(_)
lstrip(s) == IF s # <<>> /\ IsSpace(Head(s)) THEN lstrip(Tail(s)) ELSE s

RECURSIVE rstrip(_)
rstrip(s) == IF s # <<>> /\ IsSpace(s[Len(s)]) THEN rstrip(SubSeq(s, 1, Len(s) - 1)) ELSE s

\* str.strip()
strip(s) == rstrip(lstrip(s))

\* A validate_name that strips the leading spaces only.
validate_name_lstrip(v) == lstrip(v)

\* validate_name, an "after" validator: it runs on a value that already passed
\* the Field constraints, raises on a blank name and returns the stripped name.
validate_name_raises(v) == strip(v) = <<>>
validate_name(v) == strip(v)

\* name: str = Field(..., min_length=2, max_length=100): checked on the value as sent.
NameFieldOk(v) == Len(v) >= NameMinLen /\ Len(v) <= NameMaxLen

\* EmailStr: an address is local@domain; validation keeps the local part and
\* lower-cases the domain.
LowerChar(c) ==
    CASE c = "X" -> "x"
      [] c = "I" -> "i"
      [] c = "E" -> "e"
      [] OTHER -> c
Lower(s) == [i \in 1..Len(s) |-> LowerChar(s[i])]
EmailOk(e) == e.at /\ Len(e.local) > 0 /\ Len(e.domain) > 0
EmailNormalised(e) == [e EXCEPT !.domain = Lower(e.domain)]

AgeOk(a) == a >= AgeMin /\ a <= AgeMax

\* availability: min_length=1, then validate_availability (if not v: raise).
validate_availability_raises(v) == v = <<>>
AvailabilityOk(v) == Len(v) >= 1 /\ ~validate_availability_raises(v)

OptionalStrOk(o, maxLen) == IF o = None THEN TRUE ELSE Len(o[1]) <= maxLen

\* The fields RunnerApplicationCreate declares, checked on a mapping d.
CreateFieldsOk(d) ==
    /\ NameFieldOk(d.name)
    /\ ~validate_name_raises(d.name)
    /\ EmailOk(d.email)
    /\ AgeOk(d.age)
    /\ d.level \in Levels
    /\ d.goal \in Goals
    /\ AvailabilityOk(d.availability)
    /\ d.dublin_zone \in Zones
    /\ OptionalStrOk(d.experience, ExperienceMaxLen)
    /\ OptionalStrOk(d.current_pace, PaceMaxLen)

\* RunnerApplicationCreate(body): whether it validates, and application.model_dump():
\* the declared fields only (keys the model does not declare are ignored), the name
\* stripped and the e-mail normalised.
RunnerApplicationCreate_ok(body) == CreateFieldsOk(body)
model_dump(body) ==
    [name |-> validate_name(body.name),
     email |-> EmailNormalised(body.email),
     age |-> body.age,
     level |-> body.level,
     goal |-> body.goal,
     availability |-> body.availability,
     dublin_zone |-> body.dublin_zone,
     experience |-> body.experience,
     current_pace |-> body.current_pace]

\* RunnerApplication(data): the same field checks on the stored document, and
\* status: Literal["pending", "approved", "rejected"].
RunnerApplication_ok(data) == CreateFieldsOk(data) /\ data.status \in Statuses
RunnerApplication(data, id) ==
    [id |-> id,
     name |-> validate_name(data.name),
     email |-> EmailNormalised(data.email),
     age |-> data.age,
     level |-> data.level,
     goal |-> data.goal,
     availability |-> data.availability,
     dublin_zone |-> data.dublin_zone,
     experience |-> data.experience,
     current_pace |-> data.current_pace,
     created_at |-> data.created_at,
     status |-> data.status]

(***************************************************************************)
(* The request bodies sent to POST /api/applications.                      *)
(***************************************************************************)
LongText(n) == [i \in 1..n |-> "x"]

BaseBody ==
    [name |-> <<"A", "l">>,
     email |-> [local |-> "al", at |-> TRUE, domain |-> <<"x", ".", "i", "e">>],
     age |-> 35,
     level |-> "intermediate",
     goal |-> "half_marathon",
     availability |-> <<"monday_evening">>,
     dublin_zone |-> "southside",
     experience |-> None,
     current_pace |-> None,
     extra |-> None]

Bodies ==
    { BaseBody,
      [BaseBody EXCEPT !.name = <<" ", "A", "l", " ">>,
                       !.email = [local |-> "al", at |-> TRUE, domain |-> <<"X", ".", "I", "E">>],
                       !.extra = Some([id |-> 1, status |-> "approved", created_at |-> 0])],
      [BaseBody EXCEPT !.name = <<" ", "a", " ">>],
      [BaseBody EXCEPT !.name = <<" ", " ">>],
      [BaseBody EXCEPT !.name = <<"a">>],
      [BaseBody EXCEPT !.name = LongText(NameMaxLen + 1)],
      [BaseBody EXCEPT !.email = [local |-> "al", at |-> FALSE, domain |-> <<>>]],
      [BaseBody EXCEPT !.age = AgeMin - 1],
      [BaseBody EXCEPT !.age = AgeMax + 1],
      [BaseBody EXCEPT !.age = AgeMin, !.level = "beginner", !.goal = "5k", !.dublin_zone = "any",
                       !.current_pace = Some(<<"5", ":", "3", "0">>)],
      [BaseBody EXCEPT !.level = "expert"],
      [BaseBody EXCEPT !.goal = "ultra"],
      [BaseBody EXCEPT !.dublin_zone = "cork"],
      [BaseBody EXCEPT !.availability = <<>>],
      [BaseBody EXCEPT !.experience = Some(LongText(ExperienceMaxLen + 1))],
      [BaseBody EXCEPT !.current_pace = Some(LongText(PaceMaxLen + 1))] }

\* The status values update_application_status is called with (status: str).
StatusArgs == {"approved", "archived"}

\* The ?level= and ?goal= values a list request is sent with (Optional[str]).
LevelArgs == {None, Some(""), Some("beginner")}
GoalArgs == {None, Some("5k")}
LimitArgs == -1..MaxLimit

(***************************************************************************)
(* database.py: FirestoreDB.  A call that raises is a result of kind       *)
(* "Exception" (the Firestore client failed) or "ValueError" (pydantic's   *)
(* ValidationError, a ValueError, raised by the RunnerApplication schema).  *)
(***************************************************************************)
Raised(kind) == [kind |-> kind, value |-> <<>>]
Returned(value) == [kind |-> "ok", value |-> value]

\* data = application.model_dump(); data['created_at'] = utcnow(); data['status'] = 'pending'
NewDocument(body, t) ==
    [name |-> model_dump(body).name,
     email |-> model_dump(body).email,
     age |-> model_dump(body).age,
     level |-> model_dump(body).level,
     goal |-> model_dump(body).goal,
     availability |-> model_dump(body).availability,
     dublin_zone |-> model_dump(body).dublin_zone,
     experience |-> model_dump(body).experience,
     current_pace |-> model_dump(body).current_pace,
     created_at |-> t,
     status |-> "pending"]

\* doc_ref.set(data)
DocSet(st, id, data) == [i \in DOMAIN st \cup {id} |-> IF i = id THEN data ELSE st[i]]

\* A delete that removes nothing.
DocDelete_nothing(st, id) == st

\* doc_ref.delete(): deleting a document that is not there succeeds.
DocDelete(st, id) == [i \in DOMAIN st \ {id} |-> st[i]]

\* doc_ref.update({'status': status})
DocUpdateStatus(st, id, status) == [st EXCEPT ![id].status = status]

\* get_application: None when the document does not exist.
db_get_application(st, up, id) ==
    IF ~up THEN Raised("Exception")
    ELSE IF id \notin DOMAIN st THEN Returned(None)
    ELSE IF ~RunnerApplication_ok(st[id]) THEN Raised("ValueError")
    ELSE Returned(Some(RunnerApplication(st[id], id)))

\* Python truth of an Optional[str]: None and "" are both false.
Truthy(o) == o # None /\ o[1] # ""

\* An order_by in ascending direction.
Precedes_ascending(st, i, j) ==
    \/ st[i].created_at < st[j].created_at
    \/ st[i].created_at = st[j].created_at /\ i <= j

\* collection.order_by('created_at', DESCENDING): equal timestamps fall back on
\* the document name, in the same direction.
Precedes(st, i, j) ==
    \/ st[i].created_at > st[j].created_at
    \/ st[i].created_at = st[j].created_at /\ i >= j

RECURSIVE OrderByCreatedAtDesc(_, _)
OrderByCreatedAtDesc(st, S) ==
    IF S = {} THEN <<>>
    ELSE LET m == CHOOSE i \in S : \A j \in S : Precedes(st, i, j)
         IN  <<m>> \o OrderByCreatedAtDesc(st, S \ {m})

\* query.where('level', '==', level), only if level is truthy; the same for goal.
WhereLevel(st, S, level) == IF Truthy(level) THEN {i \in S : st[i].level = level[1]} ELSE S
WhereGoal(st, S, goal) == IF Truthy(goal) THEN {i \in S : st[i].goal = goal[1]} ELSE S

\* query.limit(limit)
QueryLimit(seq, limit) == SubSeq(seq, 1, IF limit < Len(seq) THEN limit ELSE Len(seq))

\* get_applications: the query, then RunnerApplication(data) of every document
\* streamed.  Firestore rejects a negative limit.
db_get_applications(st, up, limit, level, goal) ==
    LET docs == QueryLimit(
                    OrderByCreatedAtDesc(st, WhereGoal(st, WhereLevel(st, DOMAIN st, level), goal)),
                    limit)
    IN  IF ~up \/ limit < 0 THEN Raised("Exception")
        ELSE IF \E k \in 1..Len(docs) : ~RunnerApplication_ok(st[docs[k]]) THEN Raised("ValueError")
        ELSE Returned([k \in 1..Len(docs) |-> RunnerApplication(st[docs[k]], docs[k])])

(***************************************************************************)
(* main.py: the handlers.                                                  *)
(***************************************************************************)
Idle == [op |-> "idle", pc |-> "idle", id |-> 0, arg |-> <<>>]
Resp(op, id, arg, code, body) == [op |-> op, id |-> id, arg |-> arg, code |-> code, body |-> body]
NoResp == Resp("none", 0, <<>>, 0, <<>>)

\* datetime.utcnow(): later than at the request before.
utcnow == now + 1

\* doc_ref = self.collection.document(): an id no document was given before.
NewId == Cardinality(DOMAIN submitted) + 1

\* The slot a handler that is about to suspend takes.
FreeSlot(r) == req[r] = Idle /\ \A q \in Slots : q < r => req[q] # Idle

\* POST /api/applications with a body RunnerApplicationCreate rejects: FastAPI
\* answers 422 before the handler is entered.
create_application_rejected(body) ==
    /\ ~RunnerApplicationCreate_ok(body)
    /\ last' = Resp("create", 0, body, 422, <<>>)
    /\ UNCHANGED <<store, submitted, now, storageUp, req, deleteTrue>>

\* POST /api/applications up to `await doc_ref.set(data)`.
create_application_start(r, body) ==
    /\ FreeSlot(r)
    /\ RunnerApplicationCreate_ok(body)
    /\ NewId \in Ids
    /\ now' = utcnow
    /\ submitted' = [i \in DOMAIN submitted \cup {NewId} |-> IF i = NewId THEN body ELSE submitted[i]]
    /\ req' = [req EXCEPT ![r] = [op |-> "create", pc |-> "set", id |-> NewId, arg |-> NewDocument(body, utcnow)]]
    /\ last' = NoResp
    /\ UNCHANGED <<store, storageUp, deleteTrue>>

\* `await doc_ref.set(data)`; an exception reaches `except Exception` of the handler.
create_application_set(r) ==
    /\ req[r].op = "create" /\ req[r].pc = "set"
    /\ IF storageUp
       THEN /\ store' = DocSet(store, req[r].id, req[r].arg)
            /\ req' = [req EXCEPT ![r].pc = "fetch", ![r].arg = <<>>]
            /\ last' = NoResp
       ELSE /\ req' = [req EXCEPT ![r] = Idle]
            /\ last' = Resp("create", req[r].id, <<>>, 500, <<>>)
            /\ UNCHANGED store
    /\ UNCHANGED <<submitted, now, storageUp, deleteTrue>>

\* `created_app = await db.get_application(app_id)` and the rest of the handler:
\* the HTTPException(500) raised for None is caught by `except Exception`.
create_application_fetch(r) ==
    /\ req[r].op = "create" /\ req[r].pc = "fetch"
    /\ LET got == db_get_application(store, storageUp, req[r].id)
       IN  last' = IF got.kind = "ValueError" THEN Resp("create", req[r].id, <<>>, 400, <<>>)
                   ELSE IF got.kind = "Exception" \/ got.value = None
                        THEN Resp("create", req[r].id, <<>>, 500, <<>>)
                   ELSE Resp("create", req[r].id, <<>>, 201, got.value[1])
    /\ req' = [req EXCEPT ![r] = Idle]
    /\ UNCHANGED <<store, submitted, now, storageUp, deleteTrue>>

\* GET /api/applications/{application_id}
get_application(id) ==
    /\ LET got == db_get_application(store, storageUp, id)
       IN  last' = IF got.kind # "ok" THEN Resp("get", id, <<>>, 500, <<>>)
                   ELSE IF got.value = None THEN Resp("get", id, <<>>, 404, <<>>)
                   ELSE Resp("get", id, <<>>, 200, got.value[1])
    /\ UNCHANGED <<store, submitted, now, storageUp, req, deleteTrue>>

\* GET /api/applications?limit&level&goal
list_applications(limit, level, goal) ==
    /\ LET got == db_get_applications(store, storageUp, limit, level, goal)
           arg == [limit |-> limit, level |-> level, goal |-> goal]
       IN  last' = IF got.kind # "ok" THEN Resp("list", 0, arg, 500, <<>>)
                   ELSE Resp("list", 0, arg, 200, got.value)
    /\ UNCHANGED <<store, submitted, now, storageUp, req, deleteTrue>>

\* GET /health: db.get_applications(limit=1) is called without await, so the
\* coroutine is created and never run, and nothing is raised.
health_check ==
    /\ last' = Resp("health", 0, <<>>, 200, [status |-> "healthy", timestamp |-> Some(now)])
    /\ UNCHANGED <<store, submitted, now, storageUp, req, deleteTrue>>

\* A tally that forgets the count so far: stats["by_x"][app.x] = 1.
RECURSIVE Tally_restarting(_, _, _)
Tally_restarting(apps, field, n) ==
    IF n = 0 THEN [k \in {} |-> 0]
    ELSE LET d == Tally_restarting(apps, field, n - 1)
             key == apps[n][field]
         IN  [k \in DOMAIN d \cup {key} |-> IF k = key THEN 1 ELSE d[k]]

\* stats["by_x"][app.x] = stats["by_x"].get(app.x, 0) + 1, over all_apps in order.
RECURSIVE Tally(_, _, _)
Tally(apps, field, n) ==
    IF n = 0 THEN [k \in {} |-> 0]
    ELSE LET d == Tally(apps, field, n - 1)
             key == apps[n][field]
         IN  [k \in DOMAIN d \cup {key} |-> IF k = key THEN (IF key \in DOMAIN d THEN d[key] ELSE 0) + 1 ELSE d[k]]

\* GET /api/stats
get_stats ==
    /\ LET got == db_get_applications(store, storageUp, StatsLimit, None, None)
       IN  last' = IF got.kind # "ok" THEN Resp("stats", 0, <<>>, 500, <<>>)
                   ELSE Resp("stats", 0, <<>>, 200,
                             [total_applications |-> Len(got.value),
                              by_level |-> Tally(got.value, "level", Len(got.value)),
                              by_goal |-> Tally(got.value, "goal", Len(got.value)),
                              by_zone |-> Tally(got.value, "dublin_zone", Len(got.value))])
    /\ UNCHANGED <<store, submitted, now, storageUp, req, deleteTrue>>

\* DELETE /api/applications/{application_id} up to and including
\* `doc = await doc_ref.get()`: 404 when the document does not exist.
delete_application_get(r, id) ==
    /\ FreeSlot(r)
    /\ IF ~storageUp
       THEN /\ last' = Resp("delete", id, <<>>, 500, <<>>)
            /\ UNCHANGED req
       ELSE IF id \notin DOMAIN store
       THEN /\ last' = Resp("delete", id, <<>>, 404, <<>>)
            /\ UNCHANGED req
       ELSE /\ req' = [req EXCEPT ![r] = [op |-> "delete", pc |-> "delete", id |-> id, arg |-> <<>>]]
            /\ last' = NoResp
    /\ UNCHANGED <<store, submitted, now, storageUp, deleteTrue>>

\* `await doc_ref.delete()`, return True, 204.
delete_application_delete(r) ==
    /\ req[r].op = "delete" /\ req[r].pc = "delete"
    /\ IF storageUp
       THEN /\ store' = DocDelete(store, req[r].id)
            /\ deleteTrue' = [deleteTrue EXCEPT ![req[r].id] = @ + 1]
            /\ last' = Resp("delete", req[r].id, <<>>, 204, <<>>)
       ELSE /\ last' = Resp("delete", req[r].id, <<>>, 500, <<>>)
            /\ UNCHANGED <<store, deleteTrue>>
    /\ req' = [req EXCEPT ![r] = Idle]
    /\ UNCHANGED <<submitted, now, storageUp>>

\* update_application_status up to and including `doc = await doc_ref.get()`.
update_application_status_get(r, id, status) ==
    /\ FreeSlot(r)
    /\ IF ~storageUp
       THEN /\ last' = Resp("update", id, status, "raised", <<>>)
            /\ UNCHANGED req
       ELSE IF id \notin DOMAIN store
       THEN /\ last' = Resp("update", id, status, "none", <<>>)
            /\ UNCHANGED req
       ELSE /\ req' = [req EXCEPT ![r] = [op |-> "update", pc |-> "update", id |-> id, arg |-> status]]
            /\ last' = NoResp
    /\ UNCHANGED <<store, submitted, now, storageUp, deleteTrue>>

\* `await doc_ref.update({'status': status})`: Firestore raises NotFound when the
\* document is gone.
update_application_status_update(r) ==
    /\ req[r].op = "update" /\ req[r].pc = "update"
    /\ IF storageUp /\ req[r].id \in DOMAIN store
       THEN /\ store' = DocUpdateStatus(store, req[r].id, req[r].arg)
            /\ req' = [req EXCEPT ![r].pc = "refetch"]
            /\ last' = NoResp
       ELSE /\ req' = [req EXCEPT ![r] = Idle]
            /\ last' = Resp("update", req[r].id, req[r].arg, "raised", <<>>)
            /\ UNCHANGED store
    /\ UNCHANGED <<submitted, now, storageUp, deleteTrue>>

\* `return await self.get_application(application_id)`
update_application_status_refetch(r) ==
    /\ req[r].op = "update" /\ req[r].pc = "refetch"
    /\ LET got == db_get_application(store, storageUp, req[r].id)
       IN  last' = IF got.kind # "ok" THEN Resp("update", req[r].id, req[r].arg, "raised", <<>>)
                   ELSE IF got.value = None THEN Resp("update", req[r].id, req[r].arg, "none", <<>>)
                   ELSE Resp("update", req[r].id, req[r].arg, "returned", got.value[1])
    /\ req' = [req EXCEPT ![r] = Idle]
    /\ UNCHANGED <<store, submitted, now, storageUp, deleteTrue>>

\* The environment: Firestore becomes unreachable, or reachable again (between
\* two answers: while an answer waits to be read the change would not be seen).
StorageChange ==
    /\ last = NoResp
    /\ storageUp' = ~storageUp
    /\ UNCHANGED <<store, submitted, now, req, last, deleteTrue>>

Init ==
    /\ store = [i \in {} |-> 0]
    /\ submitted = [i \in {} |-> 0]
    /\ now = 0
    /\ storageUp = TRUE
    /\ req = [r \in Slots |-> Idle]
    /\ last = NoResp
    /\ deleteTrue = [i \in Ids |-> 0]

\* The client has read the answer.
Answered ==
    /\ last # NoResp
    /\ last' = NoResp
    /\ UNCHANGED <<store, submitted, now, storageUp, req, deleteTrue>>

\* No handler is suspended at an await and no answer is waiting to be read.
NoneInFlight == last = NoResp /\ \A r \in Slots : req[r] = Idle

\* The HTTP service, one request at a time: a request is taken when the one before
\* it was answered.  No route calls update_application_status.
Next ==
    \/ NoneInFlight /\ \E body \in Bodies : create_application_rejected(body)
    \/ NoneInFlight /\ \E r \in Slots, body \in Bodies : create_application_start(r, body)
    \/ \E r \in Slots : create_application_set(r)
    \/ \E r \in Slots : create_application_fetch(r)
    \/ NoneInFlight /\ \E id \in Ids : get_application(id)
    \/ NoneInFlight /\ \E limit \in LimitArgs, level \in LevelArgs, goal \in GoalArgs :
                          list_applications(limit, level, goal)
    \/ NoneInFlight /\ health_check
    \/ NoneInFlight /\ get_stats
    \/ NoneInFlight /\ \E r \in Slots, id \in Ids : delete_application_get(r, id)
    \/ \E r \in Slots : delete_application_delete(r)
    \/ Answered
    \/ StorageChange

Spec == Init /\ [][Next]_vars

\* The service together with a caller of the adapter's update_application_status.
NextAdapter ==
    \/ Next
    \/ NoneInFlight /\ \E r \in Slots, id \in Ids, status \in StatusArgs :
                          update_application_status_get(r, id, status)
    \/ \E r \in Slots : update_application_status_update(r)
    \/ \E r \in Slots : update_application_status_refetch(r)

SpecAdapter == Init /\ [][NextAdapter]_vars

\* Requests in flight together: creations and deletions interleave at their awaits.
NextConcurrent ==
    \/ \E r \in Slots, body \in Bodies : create_application_start(r, body)
    \/ \E r \in Slots : create_application_set(r)
    \/ \E r \in Slots : create_application_fetch(r)
    \/ \E r \in Slots, id \in Ids : delete_application_get(r, id)
    \/ \E r \in Slots : delete_application_delete(r)
    \/ Answered
    \/ StorageChange

SpecConcurrent == Init /\ [][NextConcurrent]_vars

(***************************************************************************)
(* Properties.                                                             *)
(***************************************************************************)
ErrorCodes == {400, 404, 500, 503}
SubmittedFields == {"name", "email", "age", "level", "goal", "availability", "dublin_zone",
                    "experience", "current_pace"}

\* C1: a POST of a body the schema accepts writes a document under an id no stored
\* record has and, Firestore being reachable, is answered 201 with that id, status
\* "pending" and the server's timestamp, whatever id, status or created_at the body
\* carried.
C1_CreatedPending ==
    [][\A r \in Slots :
          /\ (create_application_set(r) /\ storageUp) => req[r].id \notin DOMAIN store
          /\ (create_application_fetch(r) /\ storageUp) =>
                /\ last'.code = 201
                /\ last'.body.id = req[r].id /\ req[r].id \in Ids
                /\ last'.body.status = "pending"
                /\ last'.body.created_at = now]_vars

\* The payloads C2 is about.
C2Payload(body) ==
    \/ body.age < AgeMin \/ body.age > AgeMax
    \/ body.level \notin Levels
    \/ body.goal \notin Goals
    \/ body.dublin_zone \notin Zones
    \/ body.availability = <<>>

\* C2: a POST whose age is outside [18,100], whose level, goal or zone is not one
\* of the enumerated values, or whose availability is empty is answered 400, and
\* the collection is after it what it was before.
C2_Invalid400 ==
    [][\A body \in Bodies : C2Payload(body) =>
          /\ \A r \in Slots : ~create_application_start(r, body)
          /\ create_application_rejected(body) => (last'.code = 400 /\ store' = store)]_vars

\* t is s without its leading and trailing spaces.
IsStripped(t, s) ==
    \E i \in 1..(Len(s) + 1), j \in 0..Len(s) :
        /\ t = SubSeq(s, i, j)
        /\ \A k \in 1..(i - 1) : s[k] = " "
        /\ \A k \in (j + 1)..Len(s) : s[k] = " "
        /\ t # <<>> => (t[1] # " " /\ t[Len(t)] # " ")

\* C3 as stated: the record GET /api/applications/{id} returns carries every
\* submitted field exactly as the body of the POST that created it had it.
C3_RoundTripAsSent ==
    (last.op = "get" /\ last.code = 200) =>
        \A f \in SubmittedFields : last.body[f] = submitted[last.id][f]

\* C3, amended: the record GET /api/applications/{id} returns carries the name of
\* the POST body without its surrounding spaces, its e-mail with the domain in
\* lower case, and the other seven submitted fields as sent; it adds id,
\* created_at and status and nothing else.
C3_RoundTripNormalised ==
    (last.op = "get" /\ last.code = 200) =>
        LET sent == submitted[last.id]
            got == last.body
        IN  /\ IsStripped(got.name, sent.name)
            /\ got.email.local = sent.email.local
            /\ got.email.at = sent.email.at
            /\ Len(got.email.domain) = Len(sent.email.domain)
            /\ \A k \in 1..Len(sent.email.domain) :
                  got.email.domain[k] = LowerChar(sent.email.domain[k])
            /\ \A f \in SubmittedFields \ {"name", "email"} : got[f] = sent[f]
            /\ DOMAIN got = SubmittedFields \cup {"id", "created_at", "status"}
            /\ got.id = last.id

\* A body was normalised on its way into the collection and read back.
C3_Witness ==
    /\ last.op = "get" /\ last.code = 200
    /\ last.body.name # submitted[last.id].name
    /\ last.body.email # submitted[last.id].email

\* The record of a stored document, as the list returns it.
IsStoredRecord(rec) ==
    /\ rec.id \in DOMAIN store
    /\ \A f \in DOMAIN store[rec.id] : rec[f] = store[rec.id][f]

\* (ii)-(iv) of C4 for the answer `apps` to a query whose matching documents are M.
ListOrderedAndCut(apps, limit, M) ==
    /\ \A k \in 1..Len(apps) : IsStoredRecord(apps[k]) /\ apps[k].id \in M
    /\ \A k, l \in 1..Len(apps) : k < l =>
          (apps[k].created_at >= apps[l].created_at /\ apps[k].id # apps[l].id)
    /\ Len(apps) <= limit
    /\ Len(apps) = (IF Cardinality(M) < limit THEN Cardinality(M) ELSE limit)
    /\ \A i \in M : (\A k \in 1..Len(apps) : apps[k].id # i) =>
          \A k \in 1..Len(apps) : store[i].created_at <= apps[k].created_at

NonEmptyFilter(o) == IF o = None THEN FALSE ELSE o[1] # ""

C5_Delete ==
    [][(last' # last /\ last'.op = "delete") =>
          /\ (storageUp /\ last'.id \notin DOMAIN store) => (last'.code = 404 /\ store' = store)
          /\ (storageUp /\ deleteTrue[last'.id] > 0) => last'.code = 404
          /\ last'.code = 204 =>
                /\ last'.id \in DOMAIN store
                /\ DOMAIN store' = DOMAIN store \ {last'.id}
                /\ \A i \in DOMAIN store' : store'[i] = store[i]]_vars

\* A second DELETE of a deleted id was answered 404.
C5_Witness == last.op = "delete" /\ last.code = 404 /\ deleteTrue[last.id] = 1

\* C6: GET /health is answered 200 with a timestamp when Firestore can be reached
\* and 503 when it cannot.
C6_Health ==
    last.op = "health" =>
        /\ storageUp => (last.code = 200 /\ last.body.timestamp # None)
        /\ ~storageUp => last.code = 503

\* C7: the step that answers 400, 404, 500 or 503 leaves the collection as it
\* was, and a POST answered 500 leaves no new record in it, also when its write
\* succeeded and the fetch after it failed.
C7_AllOrNothing ==
    [][(last' # last /\ last'.op # "none" /\ last'.code \in ErrorCodes) =>
          /\ store' = store
          /\ (last'.op = "create" /\ last'.code = 500) => last'.id \notin DOMAIN store']_vars

RECURSIVE SumOver(_, _)
SumOver(f, D) ==
    IF D = {} THEN 0
    ELSE LET k == CHOOSE x \in D : TRUE IN f[k] + SumOver(f, D \ {k})

\* `counts` maps each value of `field` some stored record has to the number of
\* stored records that have it.
CountsOf(counts, field) ==
    /\ DOMAIN counts = {store[i][field] : i \in DOMAIN store}
    /\ \A k \in DOMAIN counts : counts[k] = Cardinality({i \in DOMAIN store : store[i][field] = k})
    /\ \A k \in DOMAIN counts : counts[k] > 0
    /\ SumOver(counts, DOMAIN counts) = Cardinality(DOMAIN store)

C9_UpdateStatus ==
    [][/\ \A r \in Slots, id \in Ids, status \in StatusArgs :
             (update_application_status_get(r, id, status) /\ storageUp /\ id \notin DOMAIN store) =>
                 (last'.code = "none" /\ store' = store)
       /\ \A r \in Slots :
             (update_application_status_update(r) /\ storageUp /\ req[r].id \in DOMAIN store) =>
                 /\ DOMAIN store' = DOMAIN store
                 /\ \A i \in DOMAIN store \ {req[r].id} : store'[i] = store[i]
                 /\ store' = [store EXCEPT ![req[r].id].status = req[r].arg]
       /\ \A r \in Slots :
             (update_application_status_refetch(r) /\ storageUp /\ req[r].id \in DOMAIN store) =>
                 (last'.code = "returned" /\ last'.body.status = req[r].arg)
       /\ \A i \in DOMAIN store \cap DOMAIN store' :
             /\ store'[i].created_at = store[i].created_at
             /\ store'[i].status # store[i].status => \E r \in Slots : update_application_status_update(r)]_vars

\* C10: however deletions interleave, at most one delete_application call returns
\* True for an id.
C10_DeletedOnce == \A id \in Ids : deleteTrue[id] <= 1
====
